---- MODULE Spec2Model ----
(***************************************************************************)
(* S3ToBedrockImageAnalyzer: a Lambda handler that, on an S3 upload event, *)
(* fetches the uploaded image, sends it to a Bedrock multimodal model and  *)
(* stores the returned HTML in an output bucket.                           *)
(*                                                                         *)
(* One Lambda process is modelled.  It serves invocations one after the    *)
(* other (a warm container); the output bucket and the wall clock outlive  *)
(* an invocation, everything else is local to it.  Invocations that the    *)
(* platform runs in parallel share the same two things and nothing else,   *)
(* so what one of them can do to the bucket, a later one can do here.      *)
(*                                                                         *)
(* Python str values that the code inspects character by character (object *)
(* keys) are sequences of one-character strings.  The HTML text, which the *)
(* code only encodes, is a sequence of Unicode code points.  A dict is a   *)
(* record, and a key missing from a dict is a field missing from the       *)
(* record.  The image bytes are opaque to the code (they are read, base64  *)
(* encoded and sent on) and are left out.                                  *)
(***************************************************************************)
EXTENDS Integers, Sequences, FiniteSets, TLC

\* ------------------------------------------------------------------------
\* Bounds of the model
\* ------------------------------------------------------------------------
MaxInvocations == 2     \* invocations served by the process
MaxTick == 1            \* seconds the clock may advance
MaxContentLen == 2      \* items in a response's content list

\* ------------------------------------------------------------------------
\* Python values
\* ------------------------------------------------------------------------
\* None, for the values that are a str or None.
None == "<None>"

\* d.get(field) is falsy for a missing entry.
Has(d, field) == field \in DOMAIN d

\* Truthiness of an Optional[str] (os.environ.get result).
Truthy(v) == v # None /\ v # ""

\* ------------------------------------------------------------------------
\* str helpers (str.lower, str.endswith, str.replace)
\* ------------------------------------------------------------------------
UpperCase == <<"A","B","C","D","E","F","G","H","I","J","K","L","M","N","O","P","Q","R","S","T","U","V","W","X","Y","Z">>
LowerCase == <<"a","b","c","d","e","f","g","h","i","j","k","l","m","n","o","p","q","r","s","t","u","v","w","x","y","z">>

LowerChar(c) ==
    IF \E i \in 1..26 : UpperCase[i] = c
    THEN LowerCase[CHOOSE i \in 1..26 : UpperCase[i] = c]
    ELSE c

Lower(s) == [i \in 1..Len(s) |-> LowerChar(s[i])]

EndsWith(s, suffix) ==
    /\ Len(s) >= Len(suffix)
    /\ SubSeq(s, Len(s) - Len(suffix) + 1, Len(s)) = suffix

\* s.replace(old, new) for single characters.
ReplaceChar(s, old, new) == [i \in 1..Len(s) |-> IF s[i] = old THEN new ELSE s[i]]

\* ------------------------------------------------------------------------
\* urllib.parse.unquote_plus(key, encoding='utf-8')
\* ------------------------------------------------------------------------
HexDigits == <<"0","1","2","3","4","5","6","7","8","9","a","b","c","d","e","f">>

IsHex(c) == \E i \in 1..16 : HexDigits[i] = LowerChar(c)
HexVal(c) == (CHOOSE i \in 1..16 : HexDigits[i] = LowerChar(c)) - 1

\* Printable ASCII, code 32 first (code 96, the grave accent, is spelled out).
Printable == <<" ","!","\"","#","$","%","&","'","(",")","*","+",",","-",".","/","0","1","2","3","4","5","6","7","8","9",":",";","<","=",">","?","@","A","B","C","D","E","F","G","H","I","J","K","L","M","N","O","P","Q","R","S","T","U","V","W","X","Y","Z","[","\\","]","^","_","<grave>","a","b","c","d","e","f","g","h","i","j","k","l","m","n","o","p","q","r","s","t","u","v","w","x","y","z","{","|","}","~">>

\* The character of one decoded byte.  Escapes of bytes outside printable
\* ASCII (control bytes, UTF-8 multi-byte sequences) are not followed up:
\* they come out as one replacement mark.
Chr(b) == IF b >= 32 /\ b <= 126 THEN Printable[b - 31] ELSE "<U+FFFD>"

\* unquote: a single left-to-right pass; "%" followed by two hex digits is
\* one byte, any other "%" stays as it is.
RECURSIVE Unquote(_)
Unquote(s) ==
    IF s = <<>> THEN <<>>
    ELSE IF s[1] = "%" /\ Len(s) >= 3 /\ IsHex(s[2]) /\ IsHex(s[3])
         THEN <<Chr(16 * HexVal(s[2]) + HexVal(s[3]))>> \o Unquote(SubSeq(s, 4, Len(s)))
         ELSE <<s[1]>> \o Unquote(Tail(s))

\* unquote_plus: "+" becomes a space first, then unquote.
UnquotePlus(s) == Unquote(ReplaceChar(s, "+", " "))

\* ------------------------------------------------------------------------
\* str.encode('utf-8') and its inverse
\* ------------------------------------------------------------------------
IsSurrogate(cp) == cp >= 55296 /\ cp <= 57343

EncodeCodePoint(cp) ==
    IF cp < 128 THEN <<cp>>
    ELSE IF cp < 2048 THEN <<192 + (cp \div 64), 128 + (cp % 64)>>
    ELSE IF cp < 65536
         THEN <<224 + (cp \div 4096), 128 + ((cp \div 64) % 64), 128 + (cp % 64)>>
         ELSE <<240 + (cp \div 262144), 128 + ((cp \div 4096) % 64),
                128 + ((cp \div 64) % 64), 128 + (cp % 64)>>

\* str.encode raises UnicodeEncodeError on a lone surrogate.
Encodable(text) == \A i \in 1..Len(text) : ~IsSurrogate(text[i])

\* Variant: html_content.encode('ascii', 'replace').
EncodeUTF8Ascii(text) == [i \in 1..Len(text) |-> IF text[i] < 128 THEN text[i] ELSE 63]

RECURSIVE EncodeUTF8(_)
EncodeUTF8(text) ==
    IF text = <<>> THEN <<>>
    ELSE EncodeCodePoint(Head(text)) \o EncodeUTF8(Tail(text))

\* ------------------------------------------------------------------------
\* datetime.now().strftime("%Y%m%d%H%M%S")
\* ------------------------------------------------------------------------
Digit(d) == HexDigits[d + 1]

\* n as decimal digits, zero padded to the given width (%Y is 4, the rest 2).
RECURSIVE Pad(_, _)
Pad(n, width) ==
    IF width = 0 THEN <<>> ELSE Pad(n \div 10, width - 1) \o <<Digit(n % 10)>>

\* The wall clock: the process starts at 2025-01-01 00:00:00 local time and
\* `clock` counts the seconds elapsed since.
Now(t) == [year |-> 2025, month |-> 1, day |-> 1,
           hour |-> (t \div 3600) % 24, minute |-> (t \div 60) % 60, second |-> t % 60]

Strftime(dt) ==
    Pad(dt.year, 4) \o Pad(dt.month, 2) \o Pad(dt.day, 2)
        \o Pad(dt.hour, 2) \o Pad(dt.minute, 2) \o Pad(dt.second, 2)

\* ------------------------------------------------------------------------
\* handler: event decoding and output key
\* ------------------------------------------------------------------------
\* event['Records'][0], record['s3']['bucket']['name'], record['s3']['object']['key']:
\* a missing 'Records' or 's3' entry is a KeyError, an empty list an IndexError.
EventWellFormed(ev) ==
    /\ Has(ev, "Records")
    /\ Len(ev.Records) >= 1
    /\ Has(ev.Records[1], "s3")

\* Variant: the last record of the event instead of the first.
DecodeEventLast(ev) ==
    [bucket |-> ev.Records[Len(ev.Records)].s3.bucket.name,
     key    |-> UnquotePlus(ev.Records[Len(ev.Records)].s3.object.key)]

DecodeEvent(ev) ==
    [bucket |-> ev.Records[1].s3.bucket.name,
     key    |-> UnquotePlus(ev.Records[1].s3.object.key)]

OutputKeyPrefix == <<"g","e","n","e","r","a","t","e","d","_","f","l","o","o","r","p","l","a","n","_","f","r","o","m","_">>
OutputKeySuffix == <<".","h","t","m","l">>

\* Variant: the timestamp left out of the key.
OutputKeyNoTimestamp(k, ts) ==
    OutputKeyPrefix \o ReplaceChar(k, "/", "_") \o OutputKeySuffix

\* f"generated_floorplan_from_{key.replace('/', '_')}_{timestamp}.html"
OutputKey(k, ts) ==
    OutputKeyPrefix \o ReplaceChar(k, "/", "_") \o <<"_">> \o ts \o OutputKeySuffix

\* ------------------------------------------------------------------------
\* get_image_from_s3
\* ------------------------------------------------------------------------
\* The media type expected from the extension; None stands for the
\* ValueError("Unsupported file type for analysis").  (First a variant in
\* which every other extension counts as PNG.)
ExpectedMimeTypeDefaultPng(k) ==
    IF EndsWith(Lower(k), <<".","j","p","g">>) \/ EndsWith(Lower(k), <<".","j","p","e","g">>)
    THEN "image/jpeg"
    ELSE "image/png"

ExpectedMimeType(k) ==
    IF EndsWith(Lower(k), <<".","j","p","g">>) \/ EndsWith(Lower(k), <<".","j","p","e","g">>)
    THEN "image/jpeg"
    ELSE IF EndsWith(Lower(k), <<".","p","n","g">>)
         THEN "image/png"
         ELSE None

\* response.get('ContentType', expected_mime_type)
MimeTypeOf(content_type, expected_mime_type) ==
    IF content_type # None THEN content_type ELSE expected_mime_type

\* ------------------------------------------------------------------------
\* invoke_bedrock_multimodal_analysis
\* ------------------------------------------------------------------------
FALLBACK_HTML == <<60,104,116,109,108,62,60,98,111,100,121,62,60,104,49,62,69,114,114,111,114,58,32,67,111,117,108,100,32,110,111,116,32,103,101,110,101,114,97,116,101,32,102,108,111,111,114,32,112,108,97,110,32,72,84,77,76,46,60,47,104,49,62,60,47,98,111,100,121,62,60,47,104,116,109,108,62>>

\* response_body.get('content') and response_body['content'][0].get('text'):
\* a missing entry, an empty list and an empty string are all falsy.
HasText(response_body) ==
    /\ Has(response_body, "content")
    /\ response_body.content # <<>>
    /\ Has(response_body.content[1], "text")
    /\ response_body.content[1].text # <<>>

\* What the try block makes of the service's reply.  A reply is
\*   [kind |-> "error"]    invoke_model raised,
\*   [kind |-> "notjson"]  the body is not JSON (json.loads raises),
\*   [kind |-> "json", body |-> response_body].
\* Variant: a failed call degrades to the fallback instead of raising.
AnalysisResultSwallow(rp) ==
    IF rp.kind # "json"
    THEN [raised |-> FALSE, text |-> FALLBACK_HTML]
    ELSE IF HasText(rp.body)
         THEN [raised |-> FALSE, text |-> rp.body.content[1].text]
         ELSE [raised |-> FALSE, text |-> FALLBACK_HTML]

\* Variant: an unexpected response shape raises instead of degrading.
AnalysisResultReraise(rp) ==
    IF rp.kind # "json"
    THEN [raised |-> TRUE, error |-> "InferenceError"]
    ELSE IF HasText(rp.body)
         THEN [raised |-> FALSE, text |-> rp.body.content[1].text]
         ELSE [raised |-> TRUE, error |-> "InferenceError"]

AnalysisResult(rp) ==
    IF rp.kind # "json"
    THEN [raised |-> TRUE, error |-> "InferenceError"]
    ELSE IF HasText(rp.body)
         THEN [raised |-> FALSE, text |-> rp.body.content[1].text]
         ELSE [raised |-> FALSE, text |-> FALLBACK_HTML]

\* ------------------------------------------------------------------------
\* json.dumps of a str (the characters the keys of the model can hold)
\* ------------------------------------------------------------------------
RECURSIVE JsonEscape(_)
JsonEscape(s) ==
    IF s = <<>> THEN <<>>
    ELSE (IF s[1] = "\"" \/ s[1] = "\\" THEN <<"\\", s[1]>> ELSE <<s[1]>>)
             \o JsonEscape(Tail(s))

JsonString(s) == <<"\"">> \o JsonEscape(s) \o <<"\"">>

\* ------------------------------------------------------------------------
\* Inputs: environment, events, service replies
\* ------------------------------------------------------------------------
ModelIds == {None, "", "anthropic.claude"}
OutputBuckets == {None, "", "generated-bucket"}

Rec(b, k) == [s3 |-> [bucket |-> [name |-> b], object |-> [key |-> k]]]

\* Raw (percent-encoded) keys: the three extensions in either case, "/" and
\* "_" in the key, the escapes %2F and %22 and a "+", and unsupported names.
RawKeys ==
    { <<"a",".","J","P","G">>,
      <<"d","/","a",".","p","n","g">>,
      <<"d","_","a",".","p","n","g">>,
      <<"d","%","2","F","a","+","%","2","2",".","P","n","g">>,
      <<"a",".","g","i","f">>,
      <<"p","n","g">> }

\* An event without 'Records', with no record, with a record without 's3',
\* with one record, and with two records.
Events ==
    { [detail |-> "test"], [Records |-> <<>>], [Records |-> <<[eventSource |-> "aws:s3"]>>] }
    \cup { [Records |-> <<Rec("uploads", k)>>] : k \in RawKeys }
    \cup { [Records |-> <<Rec("uploads", <<"a",".","j","p","e","g">>),
                          Rec("other", <<"d","/","a",".","p","n","g">>)>>] }

\* get_object: the object with its stored ContentType (None when the
\* response carries none), or a failure.
ContentTypes == {None, "image/jpeg", "binary/octet-stream"}
S3Errors == {"NoSuchKey", "AccessDenied", "ClientError", "Exception"}
S3Replies ==
    { [kind |-> "ok", ContentType |-> ct] : ct \in ContentTypes }
    \cup { [kind |-> "error", error |-> e] : e \in S3Errors }

\* Content items: with a text (possibly empty), or without a 'text' entry.
Texts == { <<32, 65, 233, 12354, 128512, 10>>, <<55296>> }
Items == { [type |-> "text", text |-> t] : t \in {<<>>} \cup Texts } \cup { [type |-> "thinking"] }

\* The code reads content[0] only: of the items after it, all that can matter
\* is whether they carry a text.
LaterItems == { [type |-> "text", text |-> <<32, 65, 233, 12354, 128512, 10>>],
                [type |-> "thinking"] }

RECURSIVE SeqsUpTo(_, _)
SeqsUpTo(S, n) ==
    IF n = 0 THEN {<<>>}
    ELSE LET shorter == SeqsUpTo(S, n - 1)
         IN  shorter \cup { Append(q, x) : q \in shorter, x \in S }

ResponseBodies ==
    { [type |-> "message"] }
    \cup { [type |-> "message", content |-> <<>>] }
    \cup { [type |-> "message", content |-> <<first>> \o rest] :
               first \in Items, rest \in SeqsUpTo(LaterItems, MaxContentLen - 1) }

BedrockReplies ==
    { [kind |-> "error"], [kind |-> "notjson"] }
    \cup { [kind |-> "json", body |-> b] : b \in ResponseBodies }

\* ------------------------------------------------------------------------
\* State
\* ------------------------------------------------------------------------
VARIABLES
    ANALYSIS_MODEL_ID,            \* module globals, read from the environment at import
    GENERATED_IMAGE_BUCKET_NAME,
    clock,                        \* seconds elapsed on the wall clock
    out_bucket,                   \* the output bucket: key -> number of times written
    invocations,                  \* invocations started so far
    pc,                           \* position of the handler
    event, bucket, key, mime_type,
    reply,                        \* what invoke_model answered
    html_content, timestamp, output_key,
    calls,                        \* the service calls of this invocation, in order
    result                        \* how the invocation ended

vars == <<ANALYSIS_MODEL_ID, GENERATED_IMAGE_BUCKET_NAME, clock, out_bucket,
          invocations, pc, event, bucket, key, mime_type, reply, html_content,
          timestamp, output_key, calls, result>>

globals == <<ANALYSIS_MODEL_ID, GENERATED_IMAGE_BUCKET_NAME>>

Running == [kind |-> "none"]
NoEvent == [unset |-> TRUE]
NoReply == [kind |-> "none"]
NoStr == <<>>
Raise(e) == [kind |-> "raise", error |-> e]

Init ==
    /\ ANALYSIS_MODEL_ID \in ModelIds
    /\ GENERATED_IMAGE_BUCKET_NAME \in OutputBuckets
    /\ clock = 0
    /\ out_bucket = <<>>
    /\ invocations = 0
    /\ pc = "idle"
    /\ event = NoEvent /\ bucket = None /\ key = NoStr /\ mime_type = None
    /\ reply = NoReply /\ html_content = NoStr /\ timestamp = NoStr /\ output_key = NoStr
    /\ calls = <<>>
    /\ result = Running

\* ------------------------------------------------------------------------
\* handler
\* ------------------------------------------------------------------------
\* Variant: only the model identifier is checked.
ConfigMissingModelOnly == ~Truthy(ANALYSIS_MODEL_ID)

\* not ANALYSIS_MODEL_ID or not GENERATED_IMAGE_BUCKET_NAME
ConfigMissing == ~Truthy(ANALYSIS_MODEL_ID) \/ ~Truthy(GENERATED_IMAGE_BUCKET_NAME)

\* The platform invokes handler(event, context): configuration check and
\* event decoding, up to the call of get_image_from_s3.
HandlerStart(ev) ==
    /\ pc \in {"idle", "done"}
    /\ invocations < MaxInvocations
    /\ invocations' = invocations + 1
    /\ event' = ev
    /\ calls' = <<>>
    /\ mime_type' = None /\ reply' = NoReply /\ html_content' = NoStr
    /\ timestamp' = NoStr /\ output_key' = NoStr
    /\ IF ConfigMissing
       THEN /\ result' = Raise("ConfigurationError")
            /\ pc' = "done"
            /\ bucket' = None /\ key' = NoStr
       ELSE IF ~EventWellFormed(ev)
            THEN /\ result' = Raise("MalformedEventError")
                 /\ pc' = "done"
                 /\ bucket' = None /\ key' = NoStr
            ELSE /\ result' = Running
                 /\ pc' = "fetch"
                 /\ bucket' = DecodeEvent(ev).bucket
                 /\ key' = DecodeEvent(ev).key
    /\ UNCHANGED <<globals, clock, out_bucket>>

\* get_image_from_s3(bucket, key): extension check, then get_object.
GetImage ==
    /\ pc = "fetch"
    /\ IF ExpectedMimeType(key) = None
       THEN /\ result' = Raise("UnsupportedMediaTypeError")
            /\ pc' = "done"
            /\ UNCHANGED <<calls, mime_type>>
       ELSE \E r \in S3Replies :
              /\ calls' = Append(calls, [op |-> "get_object", Bucket |-> bucket,
                                         Key |-> key, ok |-> r.kind = "ok"])
              /\ IF r.kind = "ok"
                 THEN /\ mime_type' = MimeTypeOf(r.ContentType, ExpectedMimeType(key))
                      /\ pc' = "invoke"
                      /\ UNCHANGED result
                 ELSE /\ result' = Raise(r.error)
                      /\ pc' = "done"
                      /\ UNCHANGED mime_type
    /\ UNCHANGED <<globals, clock, out_bucket, invocations, event, bucket, key,
                   reply, html_content, timestamp, output_key>>

\* invoke_bedrock_multimodal_analysis(image_base64, mime_type, prompt)
InvokeAnalysis ==
    /\ pc = "invoke"
    /\ \E r \in BedrockReplies :
         /\ reply' = r
         /\ calls' = Append(calls, [op |-> "invoke_model", modelId |-> ANALYSIS_MODEL_ID,
                                    media_type |-> mime_type, ok |-> r.kind # "error"])
         /\ IF AnalysisResult(r).raised
            THEN /\ result' = Raise(AnalysisResult(r).error)
                 /\ pc' = "done"
                 /\ UNCHANGED html_content
            ELSE /\ html_content' = AnalysisResult(r).text
                 /\ pc' = "write"
                 /\ UNCHANGED result
    /\ UNCHANGED <<globals, clock, out_bucket, invocations, event, bucket, key,
                   mime_type, timestamp, output_key>>

\* The output bucket after a successful put_object on k: the object is
\* created, or replaced when it exists.
Stored(b, k) ==
    [x \in DOMAIN b \cup {k} |-> IF x = k THEN (IF k \in DOMAIN b THEN b[k] + 1 ELSE 1)
                                  ELSE b[x]]

\* Timestamp, output key, html_content.encode('utf-8'), put_object.
PutResult ==
    /\ pc = "write"
    /\ timestamp' = Strftime(Now(clock))
    /\ output_key' = OutputKey(key, timestamp')
    /\ IF ~Encodable(html_content)
       THEN /\ result' = Raise("UnicodeEncodeError")
            /\ pc' = "done"
            /\ UNCHANGED <<calls, out_bucket>>
       ELSE \E ok \in BOOLEAN :
              /\ calls' = Append(calls, [op |-> "put_object",
                                         Bucket |-> GENERATED_IMAGE_BUCKET_NAME,
                                         Key |-> output_key',
                                         Body |-> EncodeUTF8(html_content),
                                         ContentType |-> "text/html", ok |-> ok])
              /\ IF ok
                 THEN /\ out_bucket' = Stored(out_bucket, output_key')
                      /\ pc' = "return"
                      /\ UNCHANGED result
                 ELSE /\ result' = Raise("StorageError")
                      /\ pc' = "done"
                      /\ UNCHANGED out_bucket
    /\ UNCHANGED <<globals, clock, invocations, event, bucket, key, mime_type, reply,
                   html_content>>

\* return {'statusCode': 200, 'body': json.dumps({...})}
Return ==
    /\ pc = "return"
    /\ result' = [kind |-> "return", statusCode |-> 200,
                  body |-> [message |-> "HTML Floor plan generation successful",
                            output_key |-> JsonString(output_key)]]
    /\ pc' = "done"
    /\ UNCHANGED <<globals, clock, out_bucket, invocations, event, bucket, key,
                   mime_type, reply, html_content, timestamp, output_key, calls>>

\* The wall clock advances by one second.  The code observes the clock only
\* through datetime.now() at the start of the write stage, so time passing is
\* modelled where it can be seen: any number of seconds before that reading.
Tick ==
    /\ pc = "write"
    /\ clock < MaxTick
    /\ clock' = clock + 1
    /\ UNCHANGED <<globals, out_bucket, invocations, pc, event, bucket, key,
                   mime_type, reply, html_content, timestamp, output_key, calls, result>>

Next ==
    \/ \E ev \in Events : HandlerStart(ev)
    \/ GetImage
    \/ InvokeAnalysis
    \/ PutResult
    \/ Return
    \/ Tick

Spec == Init /\ [][Next]_vars

\* ========================================================================
\* Properties
\* ========================================================================
\* The calls of the current invocation to one service operation.
CallsOf(op) == { i \in 1..Len(calls) : calls[i].op = op }

\* The invocation got past configuration check and event decoding.
Decoded == invocations > 0 /\ pc # "idle" /\ Has(event, "Records") /\ key # NoStr

Ext(k, suffix) == EndsWith(Lower(k), suffix)
IsPng(k) == Ext(k, <<".","p","n","g">>)
IsJpeg(k) == Ext(k, <<".","j","p","g">>) \/ Ext(k, <<".","j","p","e","g">>)

\* bytes.decode('utf-8') of a well-formed byte sequence.
RECURSIVE DecodeUTF8(_)
DecodeUTF8(b) ==
    IF b = <<>> THEN <<>>
    ELSE IF b[1] < 128 THEN <<b[1]>> \o DecodeUTF8(SubSeq(b, 2, Len(b)))
    ELSE IF b[1] < 224
         THEN <<(b[1] - 192) * 64 + (b[2] - 128)>> \o DecodeUTF8(SubSeq(b, 3, Len(b)))
    ELSE IF b[1] < 240
         THEN <<(b[1] - 224) * 4096 + (b[2] - 128) * 64 + (b[3] - 128)>>
                  \o DecodeUTF8(SubSeq(b, 4, Len(b)))
    ELSE <<(b[1] - 240) * 262144 + (b[2] - 128) * 4096 + (b[3] - 128) * 64 + (b[4] - 128)>>
             \o DecodeUTF8(SubSeq(b, 5, Len(b)))

\* json.loads of a JSON string literal: quotes off, escapes undone.
RECURSIVE JsonUnescape(_)
JsonUnescape(s) ==
    IF s = <<>> THEN <<>>
    ELSE IF s[1] = "\\" /\ Len(s) >= 2 THEN <<s[2]>> \o JsonUnescape(SubSeq(s, 3, Len(s)))
    ELSE <<s[1]>> \o JsonUnescape(Tail(s))

JsonParseString(lit) == JsonUnescape(SubSeq(lit, 2, Len(lit) - 1))

\* ------------------------------------------------------------------------
\* C1: when the model identifier or the output bucket name is missing or
\* empty, every invocation ends at once in a configuration error and has
\* called neither get_object nor invoke_model nor put_object, whatever the
\* event holds.
C1_ConfigFailsFast ==
    (invocations > 0
       /\ (ANALYSIS_MODEL_ID \in {None, ""} \/ GENERATED_IMAGE_BUCKET_NAME \in {None, ""}))
    => /\ pc = "done"
       /\ result = Raise("ConfigurationError")
       /\ calls = <<>>
       /\ out_bucket = <<>>

C1_Witness ==
    /\ invocations > 0
    /\ ANALYSIS_MODEL_ID = "anthropic.claude"
    /\ GENERATED_IMAGE_BUCKET_NAME = ""
    /\ event = [Records |-> <<Rec("uploads", <<"d","/","a",".","p","n","g">>)>>]
    /\ result = Raise("ConfigurationError")

\* ------------------------------------------------------------------------
\* C2: errors are terminal and nothing is retried: each of get_object,
\* invoke_model and put_object is called at most once per invocation; a
\* failed call is the last call, and then the invocation has ended by
\* raising; the same holds for an event that cannot be decoded, a reply that
\* cannot be parsed and a text that cannot be encoded; an invocation that
\* raised never returned the 200 payload.
C2_ErrorsTerminal ==
    /\ \A op \in {"get_object", "invoke_model", "put_object"} : Cardinality(CallsOf(op)) <= 1
    /\ \A i \in 1..Len(calls) :
         ~calls[i].ok => /\ i = Len(calls)
                         /\ pc = "done"
                         /\ result.kind = "raise"
    /\ (invocations > 0 /\ Truthy(ANALYSIS_MODEL_ID) /\ Truthy(GENERATED_IMAGE_BUCKET_NAME)
          /\ ~(Has(event, "Records") /\ event.Records # <<>> /\ Has(event.Records[1], "s3")))
       => (pc = "done" /\ result.kind = "raise" /\ calls = <<>>)
    /\ reply.kind = "notjson"
       => (pc = "done" /\ result.kind = "raise" /\ calls[Len(calls)].op = "invoke_model")
    /\ result.kind = "raise"
       => (pc = "done" /\ \A i \in 1..Len(calls) : i < Len(calls) => calls[i].ok)
    /\ result.kind = "return" => \A i \in 1..Len(calls) : calls[i].ok

C2_Witness ==
    /\ Len(calls) = 3
    /\ calls[3].op = "put_object"
    /\ ~calls[3].ok
    /\ result = Raise("StorageError")

\* ------------------------------------------------------------------------
\* C3: no output key is the target of two successful put_object calls, so
\* a stored artifact is never overwritten.
C3_WrittenOnce == \A k \in DOMAIN out_bucket : out_bucket[k] <= 1

\* ------------------------------------------------------------------------
\* C4: for a key ending in .png, .jpg or .jpeg (in any case) the media type
\* that get_image_from_s3 yields, and that goes into the inference request,
\* is image/png for .png and image/jpeg for .jpg and .jpeg, whatever
\* content type is stored with the object.
C4_MimeFromExtension ==
    (Decoded /\ (IsPng(key) \/ IsJpeg(key)))
    => /\ pc \in {"invoke", "write", "return"}
          => mime_type = (IF IsPng(key) THEN "image/png" ELSE "image/jpeg")
       /\ \A i \in CallsOf("invoke_model") :
            calls[i].media_type = (IF IsPng(key) THEN "image/png" ELSE "image/jpeg")

\* ------------------------------------------------------------------------
\* C5: for a decoded key whose extension is none of .png, .jpg, .jpeg the
\* invocation ends in an unsupported-media-type error before anything is
\* fetched: no get_object, invoke_model or put_object call is made.
C5_UnsupportedExtension ==
    (Decoded /\ ~IsPng(key) /\ ~IsJpeg(key))
    => /\ calls = <<>>
       /\ pc \in {"fetch", "done"}
       /\ pc = "done" => result = Raise("UnsupportedMediaTypeError")

C5_Witness ==
    /\ pc = "done"
    /\ key = <<"a",".","g","i","f">>
    /\ result = Raise("UnsupportedMediaTypeError")

\* ------------------------------------------------------------------------
\* C6: when invoke_model succeeds and the response has no content list, an
\* empty content list, or a first item without text, the analysis yields the
\* fixed fallback HTML and does not raise: the invocation goes on to the
\* write stage, put_object is given the fallback, and the invocation ends
\* with status 200 (it can only end otherwise if the write itself fails).
\* The fallback is plain ASCII, so its UTF-8 bytes are its code points.
LacksText(body) ==
    \/ ~Has(body, "content")
    \/ body.content = <<>>
    \/ ~Has(body.content[1], "text")
    \/ body.content[1].text = <<>>

C6_SoftFallback ==
    (reply.kind = "json" /\ LacksText(reply.body))
    => /\ html_content = FALLBACK_HTML
       /\ pc \in {"write", "return", "done"}
       /\ pc \in {"return", "done"}
          => /\ Len(calls) = 3
             /\ calls[3].op = "put_object"
             /\ calls[3].Body = FALLBACK_HTML
       /\ pc = "done"
          => \/ result.kind = "return" /\ result.statusCode = 200
             \/ result = Raise("StorageError") /\ ~calls[3].ok

C6_Witness ==
    /\ reply.kind = "json"
    /\ ~Has(reply.body, "content")
    /\ result.kind = "return"
    /\ result.statusCode = 200

\* ------------------------------------------------------------------------
\* C7: whenever some item of the content list carries a non-empty text, the
\* analysis result is the text of the earliest such item, also when that item
\* is not the first of the list.
TextItems(body) ==
    IF Has(body, "content")
    THEN { i \in 1..Len(body.content) :
             Has(body.content[i], "text") /\ body.content[i].text # <<>> }
    ELSE {}

Min(S) == CHOOSE x \in S : \A y \in S : x <= y

C7_FirstTextItem ==
    (reply.kind = "json" /\ TextItems(reply.body) # {})
    => html_content = reply.body.content[Min(TextItems(reply.body))].text

\* ------------------------------------------------------------------------
\* C8: when content[0] carries a non-empty text, that text goes through
\* unchanged: it is the analysis result, and the body given to put_object is
\* its UTF-8 encoding, with content type text/html.
C8_TextUnmodified ==
    (reply.kind = "json" /\ ~LacksText(reply.body))
    => /\ html_content = reply.body.content[1].text
       /\ \A i \in CallsOf("put_object") :
            /\ DecodeUTF8(calls[i].Body) = reply.body.content[1].text
            /\ calls[i].ContentType = "text/html"

C8_Witness ==
    /\ reply.kind = "json"
    /\ ~LacksText(reply.body)
    /\ reply.body.content[1].text = <<32, 65, 233, 12354, 128512, 10>>
    /\ CallsOf("put_object") # {}
    /\ result.kind = "return"

\* ------------------------------------------------------------------------
\* C9 as stated: for a successful invocation with decoded key K and clock
\* reading T the key written and the output_key reported are both
\* "generated_floorplan_from_" + K + "_" + T + ".html", for any K.
C9_KeyVerbatim ==
    result.kind = "return"
    => /\ calls[3].Key = OutputKeyPrefix \o key \o <<"_">> \o timestamp \o OutputKeySuffix
       /\ JsonParseString(result.body.output_key) = calls[3].Key

\* C9 amended: the key written and the output_key reported are the same
\* string, "generated_floorplan_from_" + K' + "_" + T + ".html", where K' is
\* K with every "/" replaced by "_" and T is the 14-digit clock reading.
C9_KeySlashReplaced ==
    result.kind = "return"
    => /\ calls[3].op = "put_object"
       /\ calls[3].Bucket = GENERATED_IMAGE_BUCKET_NAME
       /\ calls[3].Key = OutputKeyPrefix \o ReplaceChar(key, "/", "_") \o <<"_">>
                             \o timestamp \o OutputKeySuffix
       /\ JsonParseString(result.body.output_key) = calls[3].Key
       /\ calls[3].Key \in DOMAIN out_bucket
       /\ Len(timestamp) = 14
       /\ \E t \in 0..clock : timestamp = Strftime(Now(t))

C9_Witness ==
    /\ result.kind = "return"
    /\ key = <<"d","/","a",".","p","n","g">>
    /\ clock = 1
    /\ timestamp = <<"2","0","2","5","0","1","0","1","0","0","0","0","0","1">>

\* ------------------------------------------------------------------------
\* C10: the stages run in the order fetch, invoke, write, return: the calls
\* of an invocation are a prefix of get_object, invoke_model, put_object;
\* get_object is for the bucket and the decoded key of Records[0]; each call
\* is made only after the one before it succeeded; and the 200 payload is
\* returned only after all three succeeded.
StageOrder == <<"get_object", "invoke_model", "put_object">>

C10_Sequential ==
    /\ Len(calls) <= 3
    /\ \A i \in 1..Len(calls) :
         /\ calls[i].op = StageOrder[i]
         /\ i > 1 => calls[i - 1].ok
    /\ calls # <<>>
       => /\ calls[1].Bucket = event.Records[1].s3.bucket.name
          /\ calls[1].Key = UnquotePlus(event.Records[1].s3.object.key)
    /\ pc = "invoke" => (Len(calls) = 1 /\ calls[1].ok)
    /\ pc = "write" => (Len(calls) = 2 /\ calls[2].ok)
    /\ (pc = "return" \/ result.kind = "return") => (Len(calls) = 3 /\ calls[3].ok)
    /\ result.kind = "return" => (pc = "done" /\ result.statusCode = 200)

C10_Witness ==
    /\ result.kind = "return"
    /\ Len(event.Records) = 2
    /\ calls[1].Bucket = "uploads"
    /\ calls[1].Key = <<"a",".","j","p","e","g">>

====
